---- MODULE Spec2Model ----
(***************************************************************************)
(* Model of scripts/morse/environment.py: the MyEnvironment adapter that   *)
(* connects a planner to the MORSE simulator over two sockets.             *)
(*                                                                         *)
(*   sockS  request/response socket, used only through call()              *)
(*   sockC  fire-and-forget command socket, used through sendall()         *)
(*                                                                         *)
(* The simulator and the sockets are the environment: every socket         *)
(* operation may succeed or raise, chosen nondeterministically at each     *)
(* use.  sentS and sentC record the sendall() calls the last operation     *)
(* made on each socket, lastResult what that operation returned or raised. *)
(***************************************************************************)
EXTENDS Integers, Sequences, FiniteSets, TLC

VARIABLES
    phase,          \* "init": inside __init__ after line 31; "ready": object constructed; "dead": __init__ raised
    simRunning,     \* self.simRunning
    cdesc,          \* self.cdesc: <<dimension, controller, controller, ...>>
    con,            \* self.con: cache of the last control sent
    rigidBodies,    \* self.rigidBodies_ (set by the base class constructor from rb[0])
    lastOp,         \* name of the last operation invoked
    lastArg,        \* its argument; for readState the decoded reply to extractState()
    lastResult,     \* "ok" when it returned, otherwise the exception it raised
    sentS,          \* sendall() calls on sockS made by the last operation
    sentC,          \* sendall() calls on sockC made by the last operation
    state,          \* the state object handed to the last readState, as that call left it
    lastDispatched, \* history: last control whose commands were all sent without error
    faultAt,        \* for worldStep: which of its call()s the sockets made fail, 0 for none
    goalPhase,      \* "none": no MyGoal yet; "built": MyGoal.__init__ returned
    criteria,       \* MyGoal.criteria: <<body index, goal state>> pairs
    distance,       \* MyGoal.distance, in hundredths
    evaluated       \* history: the isSatisfied_Py evaluations so far, oldest first

goalVars == <<goalPhase, criteria, distance, evaluated>>

vars == <<phase, simRunning, cdesc, con, rigidBodies, lastOp, lastArg,
          lastResult, sentS, sentC, state, lastDispatched, faultAt, goalVars>>

(***************************************************************************)
(* Bounds of the model.                                                    *)
(***************************************************************************)
MaxLen == 3         \* longest control vector the planner passes
MaxBodies == 1      \* largest body count the simulator reports
MaxHalfTicks == 3   \* worldStep durations n/120 s (n half ticks), n in 0..MaxHalfTicks
MaxCriteria == 2    \* longest list of goal criteria the simulator reports
MaxEvals == 3       \* goal evaluations recorded in a behaviour

Min(a, b) == IF a < b THEN a ELSE b

(***************************************************************************)
(* Python helpers.                                                         *)
(***************************************************************************)
\* s[i:j] for 0 <= i <= j: indices past the end are clamped, never an error
Slice(s, i, j) == SubSeq(s, Min(i, Len(s)) + 1, Min(j, Len(s)))

\* variant: the list starts empty
Zeros_Empty(n) == <<>>

\* [0 for _ in range(n)]
Zeros(n) == [k \in 1..n |-> 0]

(***************************************************************************)
(* Messages.                                                               *)
(***************************************************************************)
\* the text of a request on sockS: a function name and its literal argument
Request(fn, arg) == [fn |-> fn, arg |-> arg]

\* the text of a command on sockC: 'id <name> <cmd> <args>' and whether it
\* ends with a newline
Command(name, cmd, args, nl) == [id |-> "id", name |-> name, cmd |-> cmd, args |-> <<args>>, nl |-> nl]

\* b'id simulation reset_objects'
ResetCommand == [id |-> "id", name |-> "simulation", cmd |-> "reset_objects", args |-> <<>>, nl |-> FALSE]

(***************************************************************************)
(* The environment: what the simulator may answer, what a socket may do.   *)
(***************************************************************************)
\* replies to getControlDescription(): <<dimension, <<name, command, n>>, ...>>
Descriptors ==
    { <<3, <<"robot.motion", "set_speed", 2>>, <<"robot.arm", "set_rotation", 1>> >>,
      <<2, <<"robot.left", "set_torque", 1>>, <<"robot.right", "set_torque", 1>> >> }

\* outcomes of one call(): the reply is decoded, sendall raises, recv raises,
\* recv returns b'' (peer closed), or the reply is not a Python expression
CallOutcomes == {"ok", "sendfail", "recvfail", "closed", "badreply"}

\* outcomes of one sockC.sendall()
SendOutcomes == {"ok", "sendfail"}

\* the exception a failing call() raises
Raised(outcome) ==
    CASE outcome = "sendfail" -> "socket.error"
      [] outcome = "recvfail" -> "socket.error"
      [] outcome = "closed"   -> "SyntaxError"
      [] outcome = "badreply" -> "SyntaxError"
      [] OTHER                -> "ok"

\* the exceptions by which a transport failure reaches the caller
TransportFailure == {"socket.error", "SyntaxError"}

(***************************************************************************)
(* call(cmd): one sendall and one recv on sockS; on any exception          *)
(* simRunning is cleared and the exception re-raised.                      *)
(***************************************************************************)
\* variant: only socket errors clear the flag
call_SocketErrorsOnly(running, cmd, outcome) ==
    [ sent    |-> <<cmd>>,
      running |-> IF outcome \in {"sendfail", "recvfail"} THEN FALSE ELSE running,
      result  |-> Raised(outcome) ]

\* variant: a successful call sets the flag again
call_Resurrecting(running, cmd, outcome) ==
    [ sent    |-> <<cmd>>,
      running |-> (outcome = "ok"),
      result  |-> Raised(outcome) ]

call(running, cmd, outcome) ==
    [ sent    |-> <<cmd>>,
      running |-> IF outcome = "ok" THEN running ELSE FALSE,
      result  |-> Raised(outcome) ]

(***************************************************************************)
(* State after lines 29-31 of __init__.                                    *)
(***************************************************************************)
Init ==
    /\ phase = "init"
    /\ simRunning = TRUE
    /\ cdesc = <<>>
    /\ con = <<>>
    /\ rigidBodies = 0
    /\ lastOp = "none"
    /\ lastArg = <<>>
    /\ lastResult = "ok"
    /\ sentS = <<>>
    /\ sentC = <<>>
    /\ state = <<>>
    /\ lastDispatched = <<>>
    /\ faultAt = 0
    /\ goalPhase = "none"
    /\ criteria = <<>>
    /\ distance = 0
    /\ evaluated = <<>>

(***************************************************************************)
(* __init__, lines 33-48: the two handshake calls, then the reset command. *)
(***************************************************************************)
\* variant: the reset command is sent even when getRigidBodiesBounds() failed
Construct_ResetRegardless(desc, nb, o1, o2, o3) ==
    LET c1 == call(simRunning, Request("getControlDescription", <<>>), o1)
        c2 == call(c1.running, Request("getRigidBodiesBounds", <<>>), o2)
    IN  /\ phase = "init"
        /\ lastOp' = "__init__"
        /\ UNCHANGED goalVars
        /\ faultAt' = 0
        /\ lastArg' = <<>>
        /\ state' = <<>>
        /\ IF c1.result # "ok"
           THEN /\ phase' = "dead"
                /\ simRunning' = c1.running
                /\ lastResult' = c1.result
                /\ sentS' = c1.sent
                /\ sentC' = <<>>
                /\ UNCHANGED <<cdesc, con, rigidBodies, lastDispatched>>
           ELSE /\ cdesc' = desc
                /\ con' = Zeros(desc[1])
                /\ lastDispatched' = Zeros(desc[1])
                /\ sentS' = c1.sent \o c2.sent
                /\ simRunning' = c2.running
                /\ sentC' = <<ResetCommand>>
                /\ IF c2.result # "ok"
                   THEN /\ phase' = "dead"
                        /\ lastResult' = c2.result
                        /\ UNCHANGED rigidBodies
                   ELSE /\ rigidBodies' = nb
                        /\ IF o3 = "ok"
                           THEN phase' = "ready" /\ lastResult' = "ok"
                           ELSE phase' = "dead" /\ lastResult' = "socket.error"

Construct(desc, nb, o1, o2, o3) ==
    LET c1 == call(simRunning, Request("getControlDescription", <<>>), o1)
        c2 == call(c1.running, Request("getRigidBodiesBounds", <<>>), o2)
    IN  /\ phase = "init"
        /\ lastOp' = "__init__"
        /\ UNCHANGED goalVars
        /\ faultAt' = 0
        /\ lastArg' = <<>>
        /\ state' = <<>>
        /\ IF c1.result # "ok"
           THEN /\ phase' = "dead"
                /\ simRunning' = c1.running
                /\ lastResult' = c1.result
                /\ sentS' = c1.sent
                /\ sentC' = <<>>
                /\ UNCHANGED <<cdesc, con, rigidBodies, lastDispatched>>
           ELSE /\ cdesc' = desc
                /\ con' = Zeros(desc[1])
                /\ lastDispatched' = Zeros(desc[1])
                /\ sentS' = c1.sent \o c2.sent
                /\ simRunning' = c2.running
                /\ IF c2.result # "ok"
                   THEN /\ phase' = "dead"
                        /\ lastResult' = c2.result
                        /\ sentC' = <<>>
                        /\ UNCHANGED rigidBodies
                   ELSE /\ rigidBodies' = nb
                        /\ sentC' = <<ResetCommand>>
                        /\ IF o3 = "ok"
                           THEN phase' = "ready" /\ lastResult' = "ok"
                           ELSE phase' = "dead" /\ lastResult' = "socket.error"


(***************************************************************************)
(* applyControl, lines 118-130.                                            *)
(***************************************************************************)
\* the loop of lines 126-130: one command per controller, i the running offset
\* variant: the offset advances by one per controller instead of by its dimension
RECURSIVE SendLoop_OffsetByOne(_, _, _)
SendLoop_OffsetByOne(controllers, c, i) ==
    IF Len(controllers) = 0 THEN <<>>
    ELSE LET controller == Head(controllers)
             req == Command(controller[1], controller[2], Slice(c, i, i + controller[3]), TRUE)
         IN  <<req>> \o SendLoop_OffsetByOne(Tail(controllers), c, i + 1)

RECURSIVE SendLoop(_, _, _)
SendLoop(controllers, c, i) ==
    IF Len(controllers) = 0 THEN <<>>
    ELSE LET controller == Head(controllers)
             req == Command(controller[1], controller[2], Slice(c, i, i + controller[3]), TRUE)
         IN  <<req>> \o SendLoop(Tail(controllers), c, i + controller[3])

\* variant: the comparison with the cache is dropped
Differs_Always(cache, c) == TRUE

\* self.con != con, line 124
Differs(cache, c) == cache # c

\* failAt = 0: every sendall succeeds; failAt = n: the n-th sendall raises
ApplyControl(c, failAt) ==
    LET cmds == SendLoop(Tail(cdesc), c, 0)
    IN  /\ phase = "ready"
        /\ lastOp' = "applyControl"
        /\ UNCHANGED goalVars
        /\ faultAt' = 0
        /\ lastArg' = c
        /\ sentS' = <<>>
        /\ state' = <<>>
        /\ IF Differs(con, c)
           THEN /\ failAt \in 0..Len(cmds)
                /\ con' = c
                /\ sentC' = IF failAt = 0 THEN cmds ELSE SubSeq(cmds, 1, failAt)
                /\ lastResult' = IF failAt = 0 THEN "ok" ELSE "socket.error"
                /\ lastDispatched' = IF failAt = 0 THEN c ELSE lastDispatched
           ELSE /\ failAt = 0
                /\ sentC' = <<>>
                /\ lastResult' = "ok"
                /\ UNCHANGED <<con, lastDispatched>>
        /\ UNCHANGED <<phase, simRunning, cdesc, rigidBodies>>

(***************************************************************************)
(* worldStep, lines 132-137.  A duration is the rational dur[1]/dur[2].    *)
(***************************************************************************)
\* variant: int() without round()
Round_Truncating(num, den) == num \div den

\* round(num/den) for num >= 0, den > 0: to nearest, ties to the even integer
Round(num, den) ==
    LET q == num \div den
        r == num % den
    IN  IF 2 * r < den THEN q
        ELSE IF 2 * r > den THEN q + 1
        ELSE IF q % 2 = 0 THEN q ELSE q + 1

\* int(round(dur/(1.0/60)))
Ticks(dur) == Round(dur[1] * 60, dur[2])

\* failAt = 0: every call succeeds; failAt = j: the j-th call fails with outcome
\* variant: a failed nextTick() is retried once before the error is raised
WorldStep_Retrying(dur, failAt, outcome) ==
    LET k == Ticks(dur)
        n == IF failAt = 0 THEN k ELSE failAt + 1
        tick == call(simRunning, Request("nextTick", <<>>), outcome)
    IN  /\ phase = "ready"
        /\ failAt \in 0..k
        /\ (failAt = 0) = (outcome = "ok")
        /\ lastOp' = "worldStep"
        /\ UNCHANGED goalVars
        /\ faultAt' = failAt
        /\ lastArg' = dur
        /\ sentS' = [m \in 1..n |-> tick.sent[1]]
        /\ sentC' = <<>>
        /\ state' = <<>>
        /\ simRunning' = IF failAt = 0 THEN simRunning ELSE tick.running
        /\ lastResult' = IF failAt = 0 THEN "ok" ELSE tick.result
        /\ UNCHANGED <<phase, cdesc, con, rigidBodies, lastDispatched>>

WorldStep(dur, failAt, outcome) ==
    LET k == Ticks(dur)
        n == IF failAt = 0 THEN k ELSE failAt
        tick == call(simRunning, Request("nextTick", <<>>), outcome)
    IN  /\ phase = "ready"
        /\ failAt \in 0..k
        /\ (failAt = 0) = (outcome = "ok")
        /\ lastOp' = "worldStep"
        /\ UNCHANGED goalVars
        /\ faultAt' = failAt
        /\ lastArg' = dur
        /\ sentS' = [m \in 1..n |-> tick.sent[1]]
        /\ sentC' = <<>>
        /\ state' = <<>>
        /\ simRunning' = IF failAt = 0 THEN simRunning ELSE tick.running
        /\ lastResult' = IF failAt = 0 THEN "ok" ELSE tick.result
        /\ UNCHANGED <<phase, cdesc, con, rigidBodies, lastDispatched>>

(***************************************************************************)
(* endSimulation, lines 139-144.                                           *)
(***************************************************************************)
\* variant: the simRunning test of line 143 is missing
EndSimulation_Unguarded(outcome) ==
    LET c == call(simRunning, Request("endSimulation", <<>>), outcome)
    IN  /\ phase = "ready"
        /\ lastOp' = "endSimulation"
        /\ UNCHANGED goalVars
        /\ faultAt' = 0
        /\ lastArg' = <<>>
        /\ sentC' = <<>>
        /\ state' = <<>>
        /\ sentS' = c.sent
        /\ simRunning' = c.running
        /\ lastResult' = c.result
        /\ UNCHANGED <<phase, cdesc, con, rigidBodies, lastDispatched>>

EndSimulation(outcome) ==
    LET c == call(simRunning, Request("endSimulation", <<>>), outcome)
    IN  /\ phase = "ready"
        /\ lastOp' = "endSimulation"
        /\ UNCHANGED goalVars
        /\ faultAt' = 0
        /\ lastArg' = <<>>
        /\ sentC' = <<>>
        /\ state' = <<>>
        /\ IF simRunning
           THEN /\ sentS' = c.sent
                /\ simRunning' = c.running
                /\ lastResult' = c.result
           ELSE /\ outcome = "ok"
                /\ sentS' = <<>>
                /\ lastResult' = "ok"
                /\ UNCHANGED simRunning
        /\ UNCHANGED <<phase, cdesc, con, rigidBodies, lastDispatched>>

(***************************************************************************)
(* getGoalCriteria, lines 64-70.                                           *)
(***************************************************************************)
GetGoalCriteria(outcome) ==
    LET c == call(simRunning, Request("getGoalCriteria", <<>>), outcome)
    IN  /\ phase = "ready"
        /\ lastOp' = "getGoalCriteria"
        /\ UNCHANGED goalVars
        /\ faultAt' = 0
        /\ lastArg' = <<>>
        /\ sentS' = c.sent
        /\ sentC' = <<>>
        /\ state' = <<>>
        /\ simRunning' = c.running
        /\ lastResult' = c.result
        /\ UNCHANGED <<phase, cdesc, con, rigidBodies, lastDispatched>>


(***************************************************************************)
(* The state codec.  A float is the token Python prints for it; a state    *)
(* object is a sequence of 4 blocks per body (position, linear velocity,   *)
(* angular velocity, quaternion w x y z).                                  *)
(***************************************************************************)
Floats == {"0.0", "1.0", "inf", "-inf", "nan"}

\* content of a state object before readState writes to it
Old == "old"

\* a state object of nb bodies holding v everywhere
FillState(nb, v) ==
    [i \in 1..(4 * nb) |-> IF i % 4 = 0 THEN <<v, v, v, v>> ELSE <<v, v, v>>]

\* one body of a reply to extractState(), holding v everywhere
Body(v) == << <<v, v, v>>, <<v, v, v>>, <<v, v, v>>, <<v, v, v, v>> >>

\* a body whose angular velocity lacks a component
ShortBody(v) == << <<v, v, v>>, <<v, v, v>>, <<v, v>>, <<v, v, v, v>> >>

\* a body without the orientation block
NoQuatBody(v) == << <<v, v, v>>, <<v, v, v>>, <<v, v, v>> >>

\* dst[k] = src[k] for k in range(n), stopping at the first missing src[k]
CopyBlock(dst, src, n) ==
    [ blk |-> [k \in 1..Len(dst) |-> IF k <= Min(n, Len(src)) THEN src[k] ELSE dst[k]],
      err |-> IF Len(src) < n THEN "IndexError" ELSE "ok" ]

\* the loop of lines 78-90 from body b (1-based) and block j (1..4) on;
\* state[i] with i past the last block raises
RECURSIVE ReadLoop(_, _, _, _)
ReadLoop(st, simState, b, j) ==
    IF b > Len(simState) THEN [state |-> st, result |-> "ok"]
    ELSE LET obj == simState[b]
             i == 4 * (b - 1) + j
         IN  IF j <= 3 /\ j > Len(obj) THEN [state |-> st, result |-> "IndexError"]
             ELSE IF i > Len(st) THEN [state |-> st, result |-> "IndexError"]
             ELSE IF j = 4 /\ Len(obj) < 4 THEN [state |-> st, result |-> "IndexError"]
             ELSE LET cp == CopyBlock(st[i], obj[j], IF j = 4 THEN 4 ELSE 3)
                      st2 == [st EXCEPT ![i] = cp.blk]
                  IN  IF cp.err # "ok" THEN [state |-> st2, result |-> cp.err]
                      ELSE IF j = 4 THEN ReadLoop(st2, simState, b + 1, 1)
                      ELSE ReadLoop(st2, simState, b, j + 1)

(***************************************************************************)
(* readState, lines 72-90: simState is the decoded reply to extractState().*)
(***************************************************************************)
\* variant: the copy loop runs inside call()'s try block, so its errors clear the flag
ReadState_LoopGuarded(simState, outcome) ==
    LET c == call(simRunning, Request("extractState", <<>>), outcome)
        r == ReadLoop(FillState(rigidBodies, Old), simState, 1, 1)
    IN  /\ phase = "ready"
        /\ lastOp' = "readState"
        /\ UNCHANGED goalVars
        /\ faultAt' = 0
        /\ lastArg' = simState
        /\ sentS' = c.sent
        /\ sentC' = <<>>
        /\ IF c.result # "ok"
           THEN /\ lastResult' = c.result
                /\ simRunning' = c.running
                /\ state' = FillState(rigidBodies, Old)
           ELSE /\ lastResult' = r.result
                /\ simRunning' = IF r.result = "ok" THEN c.running ELSE FALSE
                /\ state' = r.state
        /\ UNCHANGED <<phase, cdesc, con, rigidBodies, lastDispatched>>

ReadState(simState, outcome) ==
    LET c == call(simRunning, Request("extractState", <<>>), outcome)
        r == ReadLoop(FillState(rigidBodies, Old), simState, 1, 1)
    IN  /\ phase = "ready"
        /\ lastOp' = "readState"
        /\ UNCHANGED goalVars
        /\ faultAt' = 0
        /\ lastArg' = simState
        /\ sentS' = c.sent
        /\ sentC' = <<>>
        /\ simRunning' = c.running
        /\ IF c.result # "ok"
           THEN /\ lastResult' = c.result
                /\ state' = FillState(rigidBodies, Old)
           ELSE /\ lastResult' = r.result
                /\ state' = r.state
        /\ UNCHANGED <<phase, cdesc, con, rigidBodies, lastDispatched>>

(***************************************************************************)
(* stateToList and writeState, lines 92-116.                               *)
(***************************************************************************)
stateToList(st) ==
    [b \in 1..rigidBodies |->
        LET i == 4 * (b - 1) + 1
        IN  << <<st[i][1], st[i][2], st[i][3]>>,
               <<st[i+1][1], st[i+1][2], st[i+1][3]>>,
               <<st[i+2][1], st[i+2][2], st[i+2][3]>>,
               <<st[i+3][1], st[i+3][2], st[i+3][3], st[i+3][4]>> >>]

\* variant: the replace() of 'inf' is missing
SafeToken_NanOnly(v) ==
    CASE v = "nan"  -> "float(\"nan\")"
      [] OTHER      -> v

\* repr() of a float followed by the two replace() calls of lines 112-113
SafeToken(v) ==
    CASE v = "nan"  -> "float(\"nan\")"
      [] v = "inf"  -> "float(\"inf\")"
      [] v = "-inf" -> "-float(\"inf\")"
      [] OTHER      -> v

\* the literal sent inside submitState(...)
Literal(simState) ==
    [b \in 1..Len(simState) |->
        [j \in 1..Len(simState[b]) |->
            [k \in 1..Len(simState[b][j]) |-> SafeToken(simState[b][j][k])]]]

WriteState(st, outcome) ==
    LET c == call(simRunning, Request("submitState", Literal(stateToList(st))), outcome)
    IN  /\ phase = "ready"
        /\ lastOp' = "writeState"
        /\ UNCHANGED goalVars
        /\ faultAt' = 0
        /\ lastArg' = st
        /\ sentS' = c.sent
        /\ sentC' = <<>>
        /\ state' = <<>>
        /\ simRunning' = c.running
        /\ lastResult' = c.result
        /\ UNCHANGED <<phase, cdesc, con, rigidBodies, lastDispatched>>

(***************************************************************************)
(* MyGoal, lines 173-206.  Positions are in tenths and distances in        *)
(* hundredths, so that (s1[0][i]-s2[0][i])**2 is the square of the         *)
(* difference of two integers and 1 is 100; quaternions have integer       *)
(* components.                                                             *)
(***************************************************************************)
\* sum(f[i] for i in range(n)), f given as a sequence
RECURSIVE SumSeq(_)
SumSeq(f) == IF Len(f) = 0 THEN 0 ELSE Head(f) + SumSeq(Tail(f))

\* dist, lines 184-191; s[1] is the position and s[4] the quaternion
dist(s1, s2) ==
    LET dot == SumSeq([i \in 1..4 |-> s1[4][i] * s2[4][i]])
    IN  SumSeq([i \in 1..3 |-> (s1[1][i] - s2[1][i]) * (s1[1][i] - s2[1][i])])
            + (100 - 100 * dot * dot)

\* MyGoal.__init__, lines 177-182: the criteria are the reply to getGoalCriteria()
GoalConstruct(crits, outcome) ==
    LET c == call(simRunning, Request("getGoalCriteria", <<>>), outcome)
    IN  /\ phase = "ready"
        /\ goalPhase = "none"
        /\ lastOp' = "MyGoal.__init__"
        /\ lastArg' = <<>>
        /\ sentS' = c.sent
        /\ sentC' = <<>>
        /\ state' = <<>>
        /\ simRunning' = c.running
        /\ lastResult' = c.result
        /\ IF c.result = "ok"
           THEN goalPhase' = "built" /\ criteria' = crits
           ELSE UNCHANGED <<goalPhase, criteria>>
        /\ UNCHANGED <<distance, evaluated>>
        /\ UNCHANGED <<phase, cdesc, con, rigidBodies, lastDispatched>>
        /\ faultAt' = 0

\* variant: line 197 is missing, the distance accumulates across evaluations
StartDistance_Carried(d) == d

\* self.distance = 0, line 197
StartDistance(d) == 0

\* the loop of lines 198-202
RECURSIVE Accumulate(_, _, _)
Accumulate(d, crits, st) ==
    IF Len(crits) = 0 THEN d
    ELSE LET crit == Head(crits)
             stateTup == << st[4 * crit[1] + 1], st[4 * crit[1] + 2],
                            st[4 * crit[1] + 3], st[4 * crit[1] + 4] >>
         IN  Accumulate(d + dist(stateTup, crit[2]), Tail(crits), st)

\* lines 204-206: crit is the last criterion of the loop, a pair, and is
\* unbound when the list is empty; len(crit)*0.1 is Len(crit) * 10 hundredths
Verdict(d, crits) ==
    IF Len(crits) = 0 THEN "UnboundLocalError"
    ELSE LET crit == crits[Len(crits)]
         IN  IF d > Len(crit) * 10 THEN "False" ELSE "True"

\* isSatisfied_Py, lines 193-206
IsSatisfied(st) ==
    LET d == Accumulate(StartDistance(distance), criteria, st)
    IN  /\ phase = "ready"
        /\ goalPhase = "built"
        /\ Len(evaluated) < MaxEvals
        /\ lastOp' = "isSatisfied"
        /\ lastArg' = st
        /\ distance' = d
        /\ lastResult' = Verdict(d, criteria)
        /\ evaluated' = Append(evaluated, [st |-> st, distance |-> d, result |-> Verdict(d, criteria)])
        /\ sentS' = <<>>
        /\ sentC' = <<>>
        /\ state' = <<>>
        /\ UNCHANGED <<goalPhase, criteria>>
        /\ UNCHANGED <<phase, simRunning, cdesc, con, rigidBodies, lastDispatched>>
        /\ faultAt' = 0

(***************************************************************************)
(* Inputs.                                                                 *)
(***************************************************************************)
\* values of a control component; two are enough to tell any two slices apart
CtlValues == {0, 1}

\* control vectors the planner may pass: every length up to MaxLen
Controls == UNION { [1..n -> CtlValues] : n \in 0..MaxLen }

\* controls of the session model: v in every component, one of them a component short
SessionControls ==
    { [k \in 1..n |-> v] : n \in {cdesc[1] - 1, cdesc[1]}, v \in CtlValues }

\* durations: whole and half ticks
Durations == { <<n, 120>> : n \in 0..MaxHalfTicks }

\* decoded replies to extractState(): from no body to one body too many, or a malformed body
Replies ==
    { [b \in 1..n |-> Body("1.0")] : n \in 0..(MaxBodies + 1) }
        \cup { <<ShortBody("1.0")>>, <<NoQuatBody("inf")>> }

\* outcomes of a call() that raises
CallFailures == CallOutcomes \ {"ok"}

Next ==
    \/ \E desc \in Descriptors, nb \in 1..MaxBodies, o1, o2 \in CallOutcomes, o3 \in SendOutcomes :
          Construct(desc, nb, o1, o2, o3)
    \/ /\ phase = "ready"
       /\ \E c \in SessionControls, failAt \in 0..(Len(cdesc) - 1) : ApplyControl(c, failAt)
    \/ \E dur \in Durations, outcome \in CallOutcomes :
          \E failAt \in 0..Ticks(dur) : WorldStep(dur, failAt, outcome)
    \/ \E outcome \in CallOutcomes : EndSimulation(outcome)
    \/ \E outcome \in CallOutcomes : GetGoalCriteria(outcome)
    \/ \E simState \in Replies : ReadState(simState, "ok")
    \/ \E outcome \in CallFailures : ReadState(<<>>, outcome)
    \/ \E outcome \in CallOutcomes : WriteState(FillState(rigidBodies, "inf"), outcome)

Spec == Init /\ [][Next]_vars

(***************************************************************************)
(* Control application alone, over every control vector up to MaxLen.      *)
(***************************************************************************)
NextControl ==
    \/ \E desc \in Descriptors, nb \in 1..MaxBodies, o1, o2 \in CallOutcomes, o3 \in SendOutcomes :
          Construct(desc, nb, o1, o2, o3)
    \/ \E c \in Controls, failAt \in 0..(Len(cdesc) - 1) : ApplyControl(c, failAt)

SpecControl == Init /\ [][NextControl]_vars

(***************************************************************************)
(* The state codec alone: replies whose bodies hold every kind of float,   *)
(* differ from slot to slot, or are malformed, and writes of the state     *)
(* just read.                                                              *)
(***************************************************************************)
\* a body whose thirteen slots are told apart by their values
MixedBody ==
    << <<"0.0", "1.0", "2.0">>, <<"inf", "0.0", "-inf">>,
       <<"1.0", "nan", "2.0">>, <<"1.0", "0.0", "2.0", "nan">> >>

\* a body whose position carries a fourth component
LongBody(v) == << <<v, v, v, v>>, <<v, v, v>>, <<v, v, v>>, <<v, v, v, v>> >>

CodecBodies ==
    { Body(v) : v \in Floats }
        \cup { MixedBody, ShortBody("1.0"), NoQuatBody("inf"), LongBody("2.0") }

CodecReplies == UNION { [1..n -> CodecBodies] : n \in 0..(MaxBodies + 1) }

\* states the planner writes: the one readState just filled, or a uniform one
CodecStates ==
    (IF lastOp = "readState" /\ lastResult = "ok" THEN {state} ELSE {})
        \cup { FillState(rigidBodies, v) : v \in {"2.0", "-inf"} }

NextCodec ==
    \/ \E desc \in Descriptors, nb \in 1..MaxBodies, o1, o2 \in CallOutcomes, o3 \in SendOutcomes :
          Construct(desc, nb, o1, o2, o3)
    \/ \E simState \in CodecReplies : ReadState(simState, "ok")
    \/ \E outcome \in CallFailures : ReadState(<<>>, outcome)
    \/ /\ phase = "ready"
       /\ \E st \in CodecStates, outcome \in CallOutcomes : WriteState(st, outcome)

SpecCodec == Init /\ [][NextCodec]_vars

(***************************************************************************)
(* Goal evaluation alone.                                                  *)
(***************************************************************************)
\* a rigid body state: position, linear and angular velocity, quaternion w x y z
Pose(x, y, z, w) == << <<x, y, z>>, <<0, 0, 0>>, <<0, 0, 0>>, <<w, 0, 0, 0>> >>

\* goal states at squared distance 0.04, 0.09 and 0.25 from the origin, and
\* the origin with the negated quaternion
GoalTargets == { Pose(2, 0, 0, 1), Pose(3, 0, 0, 1), Pose(5, 0, 0, 1), Pose(0, 0, 0, -1) }

\* replies to getGoalCriteria(): up to MaxCriteria pairs of a body index and a goal state
CriteriaLists ==
    UNION { [1..n -> { <<b, t>> : b \in 0..(rigidBodies - 1), t \in GoalTargets }]
              : n \in 0..MaxCriteria }

\* states the planner evaluates: every body at the origin, or every body 0.1 along x
GoalStates ==
    { [i \in 1..(4 * rigidBodies) |-> Pose(x, 0, 0, 1)[((i - 1) % 4) + 1]] : x \in {0, 1} }

NextGoal ==
    \/ \E desc \in Descriptors, nb \in 1..MaxBodies, o1, o2 \in CallOutcomes, o3 \in SendOutcomes :
          Construct(desc, nb, o1, o2, o3)
    \/ \E crits \in CriteriaLists : GoalConstruct(crits, "ok")
    \/ \E outcome \in CallFailures : GoalConstruct(<<>>, outcome)
    \/ \E st \in GoalStates : IsSatisfied(st)

SpecGoal == Init /\ [][NextGoal]_vars

(***************************************************************************)
(* Time stepping alone, over the durations the specification lists:        *)
(* k/60 s for k = 0, 1, 30, 59, 60, then 0.016 s and 0.5 s, and durations  *)
(* that are not a whole number of ticks (0.01 s, 0.025 s, 0.125 s).        *)
(***************************************************************************)
TickCases == {0, 1, 30, 59, 60}

StepDurations ==
    { <<k, 60>> : k \in TickCases }
        \cup { <<16, 1000>>, <<1, 2>>, <<1, 100>>, <<25, 1000>>, <<125, 1000>> }
        \cup Durations

NextStep ==
    \/ \E desc \in Descriptors, nb \in 1..MaxBodies, o1, o2 \in CallOutcomes, o3 \in SendOutcomes :
          Construct(desc, nb, o1, o2, o3)
    \/ \E dur \in StepDurations, outcome \in CallOutcomes :
          \E failAt \in 0..Ticks(dur) : WorldStep(dur, failAt, outcome)

SpecStep == Init /\ [][NextStep]_vars


(***************************************************************************)
(* Properties.                                                             *)
(***************************************************************************)
\* operations that reach the simulator only through call()
CallOps == {"readState", "writeState", "worldStep", "getGoalCriteria", "endSimulation"}

\* the controllers of the descriptor, and the control-space dimension
Channels == Tail(cdesc)
Dimension == cdesc[1]

\* sum of the dimensionalities of channels 1..n
RECURSIVE DimSum(_, _)
DimSum(chans, n) == IF n = 0 THEN 0 ELSE DimSum(chans, n - 1) + chans[n][3]

\* C1: control idempotence.  When applyControl(c) with c of the correct
\* length has just dispatched (c differed from the cache) and returned, a
\* second applyControl(c) sends nothing on either socket, returns, and
\* leaves the cache equal to c; the two calls together have issued exactly
\* one command per descriptor channel.
C1_ControlIdempotence ==
    [][ ( /\ phase = "ready"
          /\ lastOp = "applyControl" /\ lastResult = "ok" /\ sentC # <<>>
          /\ Len(lastArg) = Dimension
          /\ lastOp' = "applyControl" /\ lastArg' = lastArg )
        => ( /\ sentC' = <<>>
             /\ sentS' = <<>>
             /\ lastResult' = "ok"
             /\ con' = lastArg
             /\ Len(sentC) + Len(sentC') = Len(Channels) ) ]_vars

\* a repeated applyControl(c) with a non-zero c of the correct length was a no-op
C1_Witness ==
    /\ phase = "ready"
    /\ lastOp = "applyControl" /\ lastResult = "ok"
    /\ Len(lastArg) = Dimension
    /\ lastArg # Zeros(Dimension)
    /\ sentC = <<>>
    /\ con = lastArg
    /\ lastDispatched = lastArg

\* C2: an applyControl(c) with c of the correct length and different from
\* the cache issues the channel commands in descriptor order, command n
\* carrying the slice of c that starts at the sum of the dimensionalities
\* of the channels before n and has the length of channel n's
\* dimensionality; when no send fails there is exactly one command per
\* channel, and when a send fails the commands issued are the first ones
\* of that list.
C2_AllChannelsInOrder ==
    [][ ( /\ phase = "ready"
          /\ lastOp' = "applyControl"
          /\ Len(lastArg') = Dimension
          /\ lastArg' # con )
        => ( /\ Len(sentC') \in 1..Len(Channels)
             /\ lastResult' = "ok" => Len(sentC') = Len(Channels)
             /\ \A n \in 1..Len(sentC') :
                   /\ sentC'[n].name = Channels[n][1]
                   /\ sentC'[n].cmd = Channels[n][2]
                   /\ sentC'[n].args =
                        << [k \in 1..Channels[n][3] |-> lastArg'[DimSum(Channels, n - 1) + k]] >> ) ]_vars

\* a control differing from the all-zero cache only in the last channel's
\* slice was dispatched on both channels of the 2+1 descriptor
C2_Witness ==
    /\ phase = "ready"
    /\ lastOp = "applyControl" /\ lastResult = "ok"
    /\ Dimension = 3
    /\ lastArg = <<0, 0, 1>>
    /\ Len(sentC) = 2
    /\ sentC[1].args = << <<0, 0>> >>
    /\ sentC[2].args = << <<1>> >>

\* C3 (as claimed): applyControl with a vector whose length differs from the
\* control-space dimension fails with DimensionMismatch, issues no channel
\* command and leaves the cache unchanged.
C3_DimensionMismatch ==
    [][ ( /\ phase = "ready"
          /\ lastOp' = "applyControl"
          /\ Len(lastArg') # Dimension )
        => ( /\ lastResult' = "DimensionMismatch"
             /\ sentC' = <<>>
             /\ con' = con ) ]_vars

\* C4 (as claimed): in every reachable state the cache equals the last
\* control whose full set of channel commands was dispatched.
C4_CacheIsLastDispatched == con = lastDispatched

\* C5: a worldStep(duration) that returns has issued nothing but nextTick()
\* requests, as many as the whole number nearest to duration * 60: k for
\* duration k/60 (k = 0, 1, 30, 59, 60), 1 for 0.016 s, 30 for 0.5 s; one
\* that fails has issued no more than that.
C5_TickCount ==
    lastOp = "worldStep" =>
        LET num == lastArg[1]
            den == lastArg[2]
            n == Len(sentS)
            d == n * den - 60 * num
        IN  /\ sentC = <<>>
            /\ \A m \in 1..n : sentS[m] = Request("nextTick", <<>>)
            /\ lastResult = "ok" =>
                  /\ 2 * d <= den /\ 2 * (0 - d) <= den
                  /\ \A k \in TickCases : lastArg = <<k, 60>> => n = k
                  /\ lastArg = <<16, 1000>> => n = 1
                  /\ lastArg = <<1, 2>> => n = 30
            /\ lastResult # "ok" => n >= 1 /\ 2 * d <= den

\* worldStep(59/60) returned after 59 ticks
C5_Witness ==
    /\ lastOp = "worldStep" /\ lastResult = "ok"
    /\ lastArg = <<59, 60>>
    /\ Len(sentS) = 59

\* C6: an operation whose call() met a transport error (send failure,
\* receive failure, closed connection, undecodable reply) ends with
\* simRunning false and the error raised to the caller, the failing request
\* having been sent once.
C6_CallFailure ==
    (lastResult \in TransportFailure /\ sentC = <<>>) =>
        /\ ~simRunning
        /\ lastOp \in CallOps \cup {"__init__"}
        /\ lastOp \in {"getGoalCriteria", "readState", "writeState", "endSimulation"}
              => Len(sentS) = 1
        /\ lastOp = "worldStep"
              => 2 * (Len(sentS) * lastArg[2] - 60 * lastArg[1]) <= lastArg[2]
        /\ lastOp = "__init__"
              => Len(sentS) \in 1..2 /\ (Len(sentS) = 2 => sentS[1] # sentS[2])

\* getGoalCriteria() received an undecodable reply
C6_Witness ==
    /\ lastOp = "getGoalCriteria"
    /\ lastResult = "SyntaxError"
    /\ Len(sentS) = 1
    /\ ~simRunning

\* C7 (as claimed): once simRunning is false, readState, writeState,
\* worldStep and getGoalCriteria fail with a transport failure without
\* sending anything.
C7_FailFast ==
    [][ ( /\ phase = "ready"
          /\ ~simRunning
          /\ lastOp' \in {"readState", "writeState", "worldStep", "getGoalCriteria"} )
        => ( /\ sentS' = <<>>
             /\ sentC' = <<>>
             /\ lastResult' \in TransportFailure ) ]_vars

\* C8: endSimulation with simRunning false sends nothing on either socket,
\* returns normally and leaves simRunning and the cache as they were.
C8_IdempotentShutdown ==
    [][ ( /\ phase = "ready"
          /\ ~simRunning
          /\ lastOp' = "endSimulation" )
        => ( /\ sentS' = <<>>
             /\ sentC' = <<>>
             /\ lastResult' = "ok"
             /\ simRunning' = simRunning
             /\ con' = con
             /\ lastDispatched' = lastDispatched ) ]_vars

\* endSimulation returned without sending, the session being stopped
C8_Witness ==
    /\ lastOp = "endSimulation"
    /\ lastResult = "ok"
    /\ sentS = <<>>
    /\ ~simRunning

\* C9 (as claimed): after endSimulation returns simRunning is false, and an
\* endSimulation that follows a successful one sends no request.
C9_ShutdownStopsSession ==
    [][ /\ (lastOp' = "endSimulation" /\ lastResult' = "ok") => ~simRunning'
        /\ ( /\ lastOp = "endSimulation" /\ lastResult = "ok" /\ sentS # <<>>
             /\ lastOp' = "endSimulation" )
           => sentS' = <<>> ]_vars

\* C10: once simRunning is false it stays false, whatever operation follows.
C10_NeverResurrected == [][ ~simRunning => ~simRunning' ]_vars

\* a request was sent and answered while simRunning was false
C10_Witness ==
    /\ ~simRunning
    /\ lastOp = "getGoalCriteria"
    /\ lastResult = "ok"
    /\ Len(sentS) = 1

\* C11: initialization handshake.  Nothing is sent before construction;
\* construction requests getControlDescription() first, then
\* getRigidBodiesBounds(), and only after both were answered sends one
\* command, 'id simulation reset_objects', on the command socket; when
\* either request fails no command is sent at all.
C11_HandshakeOrder ==
    /\ phase = "init" => sentS = <<>> /\ sentC = <<>>
    /\ lastOp = "__init__" =>
          LET handshake == << Request("getControlDescription", <<>>),
                              Request("getRigidBodiesBounds", <<>>) >>
          IN  /\ Len(sentS) \in 1..2
              /\ sentS = SubSeq(handshake, 1, Len(sentS))
              /\ Len(sentC) <= 1
              /\ \A n \in 1..Len(sentC) :
                    /\ sentC[n].id = "id"
                    /\ sentC[n].name = "simulation"
                    /\ sentC[n].cmd = "reset_objects"
                    /\ sentC[n].args = <<>>
              /\ sentC # <<>> => sentS = handshake /\ simRunning
              /\ ~simRunning => sentC = <<>>
              /\ lastResult = "ok" => Len(sentC) = 1

\* construction completed: both requests answered, then the reset sent
C11_Witness ==
    /\ lastOp = "__init__"
    /\ phase = "ready"
    /\ Len(sentS) = 2
    /\ Len(sentC) = 1

\* what the simulator's eval() makes of one token of a submitState literal:
\* a numeric literal is its value, float("inf") and float("nan") are the
\* non-finite values, and a bare inf or nan is an undefined name
SimEval(tok) ==
    CASE tok = "float(\"inf\")"  -> "inf"
      [] tok = "-float(\"inf\")" -> "-inf"
      [] tok = "float(\"nan\")"  -> "nan"
      [] tok \in {"inf", "-inf", "nan", Old} -> "NameError"
      [] OTHER -> tok

SimDecode(literal) ==
    [b \in 1..Len(literal) |->
        [j \in 1..Len(literal[b]) |->
            [k \in 1..Len(literal[b][j]) |-> SimEval(literal[b][j][k])]]]

\* a reply of nb bodies, each with blocks of 3, 3, 3 and 4 values
WellFormed(raw, nb) ==
    /\ Len(raw) = nb
    /\ \A b \in 1..Len(raw) :
          /\ Len(raw[b]) = 4
          /\ \A j \in 1..4 : Len(raw[b][j]) = IF j = 4 THEN 4 ELSE 3

PartlyWritten(st) == \E i \in 1..Len(st) : \E k \in 1..Len(st[i]) : st[i][k] = Old

\* C13 (as claimed): when the decoded reply has a body count other than the
\* session's, or a block that has not 3 (position, velocities) or 4
\* (orientation) values, readState fails (by whatever exception stands for
\* MalformedState); it never returns with a partially written state.
C13_MalformedRejected ==
    (lastOp = "readState" /\ lastResult \notin TransportFailure) =>
        /\ ~WellFormed(lastArg, rigidBodies) => lastResult # "ok"
        /\ lastResult = "ok" => ~PartlyWritten(state)

\* C14 (as claimed): isSatisfied returns, and returns true exactly when the
\* sum of the per-criterion distances is at most 0.1 times the number of
\* criteria (10 hundredths each), for any list of n >= 0 criteria.
C14_Threshold ==
    lastOp = "isSatisfied" =>
        /\ distance = SumSeq([n \in 1..Len(criteria) |->
                                 dist(SubSeq(lastArg, 4 * criteria[n][1] + 1, 4 * criteria[n][1] + 4),
                                      criteria[n][2])])
        /\ lastResult \in {"True", "False"}
        /\ (lastResult = "True") = (distance <= 10 * Len(criteria))

\* C15: goal evaluation is a function of the state and the criteria: two
\* evaluations of the same state, whatever was evaluated in between, stored
\* the same distance and gave the same result, and once the goal is built
\* its criteria list never changes.
C15_PureEvaluation ==
    /\ [](\A i, j \in 1..Len(evaluated) :
            evaluated[i].st = evaluated[j].st => evaluated[i] = evaluated[j])
    /\ [][goalPhase = "built" => criteria' = criteria]_vars

\* a state was evaluated, then another one, then the first again, against a
\* non-empty criteria list
C15_Witness ==
    /\ Len(evaluated) = 3
    /\ Len(criteria) > 0
    /\ evaluated[1].st = evaluated[3].st
    /\ evaluated[2].st # evaluated[1].st
    /\ evaluated[2].distance # evaluated[1].distance

\* the exceptions of readState that are not transport failures: the reply
\* was decoded but does not fit the state object
Malformed == {"IndexError"}

\* C16: a readState that fails on a decoded reply that does not fit the
\* state object leaves simRunning as it was (true stays true) and the
\* object usable: the operation that follows still sends its request to the
\* simulator.
C16_MalformedKeepsSession ==
    [][ /\ ( /\ phase = "ready"
             /\ lastOp' = "readState"
             /\ lastResult' \in Malformed )
           => ( /\ simRunning' = simRunning
                /\ phase' = "ready"
                /\ Len(sentS') = 1 )
        /\ ( /\ lastOp = "readState"
             /\ lastResult \in Malformed
             /\ lastOp' \in {"readState", "writeState", "getGoalCriteria"} )
           => Len(sentS') = 1
        /\ ( /\ lastOp = "readState"
             /\ lastResult \in Malformed
             /\ simRunning
             /\ lastOp' = "endSimulation" )
           => Len(sentS') = 1 ]_vars

\* readState failed on a malformed reply with the session still running
C16_Witness ==
    /\ lastOp = "readState"
    /\ lastResult \in Malformed
    /\ Len(sentS) = 1
    /\ simRunning

\* C17: an operation that ended with a transport failure, on either socket,
\* leaves simRunning false; this includes a sendall on the command socket
\* that raised during applyControl or during the reset of the constructor.
C17_TransportFailureStops ==
    lastResult \in TransportFailure => ~simRunning

\* C18: when the j-th nextTick() call of a worldStep that needs k >= j ticks
\* fails, the worldStep has sent exactly j nextTick() requests (the failed
\* one is the last, nothing follows it), simRunning is false and the
\* worldStep raised the error of that call.
C18_AbortAtFirstFailedTick ==
    (lastOp = "worldStep" /\ faultAt > 0) =>
        /\ faultAt <= Ticks(lastArg)
        /\ Len(sentS) = faultAt
        /\ \A m \in 1..Len(sentS) : sentS[m] = Request("nextTick", <<>>)
        /\ sentC = <<>>
        /\ ~simRunning
        /\ lastResult \in TransportFailure

\* the 30th tick of a worldStep(59/60) failed
C18_Witness ==
    /\ lastOp = "worldStep"
    /\ lastArg = <<59, 60>>
    /\ faultAt = 30
    /\ Len(sentS) = 30
    /\ lastResult # "ok"

\* C19: every message an operation writes on the command socket has the
\* shape 'id <channel-name> <args...>' and ends with a newline, the reset
\* command of the constructor as well as the commands of applyControl.
C19_CommandsNewlineTerminated ==
    \A n \in 1..Len(sentC) :
        /\ sentC[n].id = "id"
        /\ sentC[n].nl

\* C20: the constructor leaves the cache self.con equal to the all-zero
\* vector of the control dimension, so the first applyControl after it, given
\* a vector of the control dimension, sends channel commands exactly when
\* the vector has a non-zero component: with the all-zero vector it sends
\* nothing on the command socket.
C20_FirstControl ==
    /\ []( (lastOp = "__init__" /\ phase = "ready")
              => con = [k \in 1..Dimension |-> 0] )
    /\ [][ ( /\ phase = "ready"
             /\ lastOp = "__init__"
             /\ lastOp' = "applyControl"
             /\ Len(lastArg') = Dimension )
           => ( /\ (sentC' # <<>>) = (\E k \in 1..Dimension : lastArg'[k] # 0)
                /\ (\A k \in 1..Dimension : lastArg'[k] = 0)
                      => (sentC' = <<>> /\ sentS' = <<>> /\ lastResult' = "ok") ) ]_vars

\* an applyControl with the all-zero vector sent nothing while no control
\* had been dispatched yet
C20_Witness ==
    /\ phase = "ready"
    /\ lastOp = "applyControl" /\ lastResult = "ok"
    /\ Len(lastArg) = Dimension
    /\ \A k \in 1..Dimension : lastArg[k] = 0
    /\ sentC = <<>>
    /\ con = lastArg
    /\ lastDispatched = lastArg

====
